---- MODULE Spec2Model ----
(***************************************************************************)
(* A model of moonshot/strategies/base.py (class Moonshot): the backtest   *)
(* pipeline (weights -> constrained weights -> positions -> returns net of *)
(* commissions and slippage) and the live path (weights -> target          *)
(* quantities -> reconciliation against held positions).                   *)
(*                                                                         *)
(* A DataFrame is a function over its index and columns.  A cell is an     *)
(* extended rational [n |-> numerator, d |-> denominator] in lowest terms: *)
(* d > 0 is a finite number, <<0,0>> is NaN (a missing value) and          *)
(* <<+-1,0>> is +-infinity, so that a missing value propagates through the *)
(* arithmetic the way it does through pandas.  Floating-point rounding     *)
(* error is not modelled: finite arithmetic is exact.                      *)
(***************************************************************************)
EXTENDS Integers, Sequences, FiniteSets, TLC

\* ------------------------------------------------------------------------
\* Bounds of the model
\* ------------------------------------------------------------------------
NumDates == 3
NumInstruments == 2
NumAccounts == 2

Dates == 1..NumDates
Instruments == 1..NumInstruments
Accounts == 1..NumAccounts
LastDate == NumDates

\* ------------------------------------------------------------------------
\* Cells: numbers with NaN
\* ------------------------------------------------------------------------
Abs(x) == IF x < 0 THEN -x ELSE x
Sign(x) == IF x < 0 THEN -1 ELSE IF x > 0 THEN 1 ELSE 0

RECURSIVE Gcd(_, _)
Gcd(a, b) == IF b = 0 THEN a ELSE Gcd(b, a % b)

Norm(n, d) ==
    IF d = 1 THEN [n |-> n, d |-> 1]
    ELSE IF d = 0 THEN [n |-> Sign(n), d |-> 0]
    ELSE LET g == Gcd(Abs(n), Abs(d))
         IN  [n |-> (Sign(d) * n) \div g, d |-> Abs(d) \div g]

NaN == [n |-> 0, d |-> 0]
Num(k) == [n |-> k, d |-> 1]
Frac(a, b) == Norm(a, b)
Zero == Num(0)
One == Num(1)

isna(x) == x.d = 0 /\ x.n = 0
IsFinite(x) == x.d > 0

Add(x, y) ==
    IF x.d = 0 /\ y.d = 0
    THEN (IF x = y THEN x ELSE NaN)
    ELSE Norm(x.n * y.d + y.n * x.d, x.d * y.d)
Neg(x) == [n |-> -x.n, d |-> x.d]
Sub(x, y) == Add(x, Neg(y))
Mul(x, y) == Norm(x.n * y.n, x.d * y.d)
Div(x, y) == Norm(x.n * y.d * Sign(y.n), x.d * Abs(y.n))
abs(x) == [n |-> Abs(x.n), d |-> x.d]

\* Comparisons of pandas: any comparison with NaN is False.
Lt(x, y) ==
    /\ ~isna(x)
    /\ ~isna(y)
    /\ x # y
    /\ IF x.d = 0 THEN x.n < 0
       ELSE IF y.d = 0 THEN y.n > 0
       ELSE x.n * y.d < y.n * x.d
Gt(x, y) == Lt(y, x)
Le(x, y) == ~isna(x) /\ ~isna(y) /\ (x = y \/ Lt(x, y))
Ge(x, y) == Le(y, x)
Eq(x, y) == ~isna(x) /\ ~isna(y) /\ x = y
Ne(x, y) == ~Eq(x, y)

fillna(x, v) == IF isna(x) THEN v ELSE x

\* numpy's round: to the nearest integer, a tie to the even one; NaN and
\* the infinities are kept.
Floor(x) == x.n \div x.d
round_down(x) == IF x.d = 0 THEN x ELSE Num(Floor(x))
round(x) ==
    IF x.d = 0 THEN x
    ELSE LET f == Floor(x)
             twice == 2 * (x.n - f * x.d)
         IN  IF twice < x.d THEN Num(f)
             ELSE IF twice > x.d THEN Num(f + 1)
             ELSE IF f % 2 = 0 THEN Num(f) ELSE Num(f + 1)

\* ------------------------------------------------------------------------
\* DataFrames indexed by Date with one column per instrument
\* ------------------------------------------------------------------------
DataFrame(v) == [t \in Dates |-> [i \in Instruments |-> v]]
Broadcast(row) == [t \in Dates |-> [i \in Instruments |-> row[i]]]

shift(df) == [t \in Dates |-> [i \in Instruments |-> IF t = 1 THEN NaN ELSE df[t - 1][i]]]
MAdd(a, b) == [t \in Dates |-> [i \in Instruments |-> Add(a[t][i], b[t][i])]]
MSub(a, b) == [t \in Dates |-> [i \in Instruments |-> Sub(a[t][i], b[t][i])]]
MMul(a, b) == [t \in Dates |-> [i \in Instruments |-> Mul(a[t][i], b[t][i])]]
MDiv(a, b) == [t \in Dates |-> [i \in Instruments |-> Div(a[t][i], b[t][i])]]
MAbs(a) == [t \in Dates |-> [i \in Instruments |-> abs(a[t][i])]]
MScale(a, k) == [t \in Dates |-> [i \in Instruments |-> Mul(a[t][i], k)]]
diff(df) == MSub(df, shift(df))

\* DataFrame.where(cond, other): keep the cell where cond holds.
where(df, cond, other) ==
    [t \in Dates |-> [i \in Instruments |-> IF cond[t][i] THEN df[t][i] ELSE other[t][i]]]
replace(df, old, new) ==
    [t \in Dates |-> [i \in Instruments |-> IF Eq(df[t][i], old) THEN new ELSE df[t][i]]]

\* fillna(method="ffill"): the last value present at or before the date.
RECURSIVE ffillCell(_, _, _)
ffillCell(df, t, i) ==
    IF ~isna(df[t][i]) \/ t = 1 THEN df[t][i] ELSE ffillCell(df, t - 1, i)
ffill(df) == [t \in Dates |-> [i \in Instruments |-> ffillCell(df, t, i)]]

\* DataFrame.pct_change(): fill_method="pad", then df / df.shift() - 1.
pct_change(df) ==
    LET data == ffill(df)
    IN  MSub(MDiv(data, shift(data)), DataFrame(One))

\* ------------------------------------------------------------------------
\* The Panel: prices.loc[field]
\* ------------------------------------------------------------------------
PriceFields == <<"Close", "Open", "Bid", "Ask", "High", "Low">>
ReferenceFields == {"Multiplier", "PriceMagnifier", "SecType", "PrimaryExchange",
                    "Currency", "Symbol", "Nlv"}

\* Field level of the Panel's index.
FieldsOf(prices) == prices.fields

\* A time-varying field is read as stored; a field of the securities master
\* is one value per instrument, broadcast over all dates.
loc(prices, field) ==
    IF field \in ReferenceFields THEN Broadcast(prices.master[field])
    ELSE prices.data[field]

\* A call returns a value or raises.
Return(v) == [raised |-> "", value |-> v]
Raise(e) == [raised |-> e, value |-> <<>>]

RECURSIVE LastCandidate(_, _)
LastCandidate(fields, k) ==
    IF k > Len(PriceFields) THEN ""
    ELSE LET later == LastCandidate(fields, k + 1)
         IN  IF later # "" THEN later
             ELSE IF PriceFields[k] \in fields THEN PriceFields[k] ELSE ""

RECURSIVE FirstCandidate(_, _)
FirstCandidate(fields, k) ==
    IF k > Len(PriceFields) THEN ""
    ELSE IF PriceFields[k] \in fields THEN PriceFields[k]
    ELSE FirstCandidate(fields, k + 1)

_get_contract_values(prices) ==
    LET field == FirstCandidate(FieldsOf(prices), 1)
    IN  IF field = "" THEN Raise("ValueError: Can't calculate contract values")
        ELSE LET closes == loc(prices, field)
                 price_magnifiers == loc(prices, "PriceMagnifier")
                 multipliers == loc(prices, "Multiplier")
             IN  Return([t \in Dates |-> [i \in Instruments |->
                     Mul(Div(closes[t][i], fillna(price_magnifiers[t][i], One)),
                         fillna(multipliers[t][i], One))]])

\* ------------------------------------------------------------------------
\* Strategy hooks with their default implementation
\* ------------------------------------------------------------------------
simulate_positions_unshifted(weights, prices) == weights
simulate_positions(weights, prices) == shift(weights)

simulate_gross_returns(positions, prices) ==
    LET closes == loc(prices, "Close")
    IN  MMul(pct_change(closes), shift(positions))

_get_trades_undifferenced(positions) == positions
_get_trades(positions) == diff(positions)

\* ------------------------------------------------------------------------
\* Cost models
\* ------------------------------------------------------------------------
\* A commission class: a rate charged on the size of each trade.
get_commissions(commission_cls, contract_values, trades, nlvs) ==
    MScale(MAbs(trades), commission_cls.rate)

\* A slippage class, and FixedSlippage(one_way_slippage): a rate on each trade.
get_slippage(one_way_slippage, trades, positions, prices) ==
    MScale(MAbs(trades), one_way_slippage)

NoCommission == [kind |-> "None", cls |-> [rate |-> Zero], classes |-> <<>>]
CommissionClass(c) == [kind |-> "class", cls |-> c, classes |-> <<>>]
CommissionDict(m) == [kind |-> "dict", cls |-> [rate |-> Zero], classes |-> m]

\* `not self.COMMISSION_CLASS`: None, or a dict without entries.
IsFalsy(COMMISSION_CLASS) ==
    \/ COMMISSION_CLASS.kind = "None"
    \/ COMMISSION_CLASS.kind = "dict" /\ DOMAIN COMMISSION_CLASS.classes = {}

\* sec_types + "|" + exchanges + "|" + currencies, and s.split("|")
JoinTags(sec_type, exchange, currency) == <<sec_type, "|", exchange, "|", currency>>
SplitTags(s) == SelectSeq(s, LAMBDA piece : piece # "|")

required_sec_groups(prices) ==
    LET sec_types == loc(prices, "SecType")
        exchanges == loc(prices, "PrimaryExchange")
        currencies == loc(prices, "Currency")
    IN  {SplitTags(JoinTags(sec_types[LastDate][i], exchanges[LastDate][i],
                            currencies[LastDate][i])) : i \in Instruments}

\* sec_group_commissions.where(in_sec_group, all_commissions)
merge_swapped(sec_group_commissions, in_sec_group, all_commissions) ==
    where(all_commissions, in_sec_group, sec_group_commissions)
merge(sec_group_commissions, in_sec_group, all_commissions) ==
    where(sec_group_commissions, in_sec_group, all_commissions)

\* The loop over required_sec_groups: each group's commissions are kept in the
\* cells tagged with the group, the other cells keep what they held.
RECURSIVE MergeSecGroups(_, _, _, _, _, _, _)
MergeSecGroups(groups, all_commissions, commission_classes, contract_values, trades, nlvs, prices) ==
    IF groups = {} THEN all_commissions
    ELSE LET sec_group == CHOOSE g \in groups : TRUE
             commission_cls == commission_classes[sec_group]
             sec_group_commissions == get_commissions(commission_cls, contract_values, trades, nlvs)
             sec_types == loc(prices, "SecType")
             exchanges == loc(prices, "PrimaryExchange")
             currencies == loc(prices, "Currency")
             in_sec_group == [t \in Dates |-> [i \in Instruments |->
                                 /\ sec_types[t][i] = sec_group[1]
                                 /\ exchanges[t][i] = sec_group[2]
                                 /\ currencies[t][i] = sec_group[3]]]
         IN  MergeSecGroups(groups \ {sec_group},
                            merge(sec_group_commissions, in_sec_group, all_commissions),
                            commission_classes, contract_values, trades, nlvs, prices)

_get_commissions(strategy, positions, prices) ==
    IF IsFalsy(strategy.COMMISSION_CLASS) THEN Return(DataFrame(Zero))
    ELSE LET trades == _get_trades(positions)
             contract_values == _get_contract_values(prices)
             nlvs == IF "Nlv" \in FieldsOf(prices) THEN loc(prices, "Nlv") ELSE <<>>
         IN  IF contract_values.raised # "" THEN contract_values
             ELSE IF strategy.COMMISSION_CLASS.kind # "dict"
             THEN Return(get_commissions(strategy.COMMISSION_CLASS.cls,
                                         contract_values.value, trades, nlvs))
             ELSE LET commission_classes == strategy.COMMISSION_CLASS.classes
                      defined_sec_groups == DOMAIN commission_classes
                      required == required_sec_groups(prices)
                      missing_sec_groups == required \ defined_sec_groups
                  IN  IF missing_sec_groups # {}
                      THEN [raised |-> "ValueError: expected a commission class",
                            value |-> missing_sec_groups]
                      ELSE Return(MergeSecGroups(required, DataFrame(NaN), commission_classes,
                                                 contract_values.value, trades, nlvs, prices))

RECURSIVE SumSlippage(_, _, _, _, _)
SumSlippage(classes, k, trades, positions, prices) ==
    IF k = 0 THEN DataFrame(Zero)
    ELSE MAdd(SumSlippage(classes, k - 1, trades, positions, prices),
              get_slippage(classes[k], trades, positions, prices))

_get_slippage_adding_bps(strategy, positions, prices) ==
    LET trades == _get_trades(positions)
        slippage == SumSlippage(strategy.SLIPPAGE_CLASSES, Len(strategy.SLIPPAGE_CLASSES),
                                trades, positions, prices)
    IN  IF strategy.SLIPPAGE_BPS # 0
        THEN MAdd(slippage,
                  get_slippage(Frac(strategy.SLIPPAGE_BPS, 10000), trades, positions, prices))
        ELSE slippage

_get_slippage(strategy, positions, prices) ==
    LET trades == _get_trades(positions)
        slippage == SumSlippage(strategy.SLIPPAGE_CLASSES, Len(strategy.SLIPPAGE_CLASSES),
                                trades, positions, prices)
    IN  IF strategy.SLIPPAGE_BPS # 0
        THEN get_slippage(Frac(strategy.SLIPPAGE_BPS, 10000), trades, positions, prices)
        ELSE slippage

_get_returns_without_slippage(strategy, positions, prices) ==
    LET gross_returns == simulate_gross_returns(positions, prices)
        commissions == _get_commissions(strategy, positions, prices)
    IN  IF "Close" \notin FieldsOf(prices) THEN Raise("KeyError: Close")
        ELSE IF commissions.raised # "" THEN commissions
        ELSE Return(MSub(gross_returns, commissions.value))

_get_returns(strategy, positions, prices) ==
    LET gross_returns == simulate_gross_returns(positions, prices)
        commissions == _get_commissions(strategy, positions, prices)
        slippage == _get_slippage(strategy, positions, prices)
    IN  IF "Close" \notin FieldsOf(prices) THEN Raise("KeyError: Close")
        ELSE IF commissions.raised # "" THEN commissions
        ELSE Return(MSub(MSub(gross_returns, commissions.value), slippage))

\* ------------------------------------------------------------------------
\* Weight constraint
\* ------------------------------------------------------------------------
\* What a hook returns: None, or a DataFrame.
None == [isNone |-> TRUE, df |-> <<>>]
Some(df) == [isNone |-> FALSE, df |-> df]

get_max_allowed_quantities(strategy, prices) == strategy.max_allowed_quantities
get_min_allowed_quantities(strategy, prices) == strategy.min_allowed_quantities

\* max_allowed_quantities is None and min_allowed_quantities is None
no_constraints_either(max_allowed, min_allowed) == max_allowed.isNone \/ min_allowed.isNone
no_constraints(max_allowed, min_allowed) == max_allowed.isNone /\ min_allowed.isNone

\* weights * allowed_quantities / target_quantities.replace(0, 1), in one cell
rescale_undivided(weight, allowed_quantity, divisor) == Mul(weight, allowed_quantity)
rescale(weight, allowed_quantity, divisor) == Div(Mul(weight, allowed_quantity), divisor)

_constrain_weights(strategy, weights, prices) ==
    LET max_allowed == get_max_allowed_quantities(strategy, prices)
        min_allowed == get_min_allowed_quantities(strategy, prices)
    IN  IF no_constraints(max_allowed, min_allowed) THEN Return(weights)
        ELSE IF "Nlv" \notin FieldsOf(prices)
        THEN Raise("ValueError: must provide NLVs to constrain weights")
        ELSE LET target_trade_values == MMul(MAbs(weights), loc(prices, "Nlv"))
                 contract_values == _get_contract_values(prices)
             IN  IF contract_values.raised # "" THEN contract_values
                 ELSE LET target_quantities == MDiv(target_trade_values, shift(contract_values.value))
                          max_allowed_quantities ==
                              IF max_allowed.isNone THEN target_quantities ELSE max_allowed.df
                          min_allowed_quantities ==
                              IF min_allowed.isNone THEN target_quantities ELSE min_allowed.df
                          trades == _get_trades(weights)
                          divisor == replace(target_quantities, Zero, One)
                          reduce_weights == [t \in Dates |-> [i \in Instruments |->
                              /\ Gt(target_quantities[t][i], max_allowed_quantities[t][i])
                              /\ Gt(abs(trades[t][i]), Zero)]]
                          reduced == [t \in Dates |-> [i \in Instruments |->
                              IF reduce_weights[t][i] = FALSE THEN weights[t][i]
                              ELSE rescale(weights[t][i], max_allowed_quantities[t][i],
                                           divisor[t][i])]]
                          increase_weights == [t \in Dates |-> [i \in Instruments |->
                              /\ Lt(target_quantities[t][i], min_allowed_quantities[t][i])
                              /\ Gt(abs(trades[t][i]), Zero)]]
                      IN  Return([t \in Dates |-> [i \in Instruments |->
                              IF increase_weights[t][i] = FALSE THEN reduced[t][i]
                              ELSE rescale(reduced[t][i], min_allowed_quantities[t][i],
                                           divisor[t][i])]])

\* ------------------------------------------------------------------------
\* Backtest
\* ------------------------------------------------------------------------
\* allocation = allocation or 1.0
OrOne(allocation) == IF allocation = Zero THEN One ELSE allocation

backtest(strategy, prices, hook_weights, allocation) ==
    LET alloc == OrOne(allocation)
        scaled == MScale(hook_weights, alloc)
        weights == _constrain_weights(strategy, scaled, prices)
    IN  IF weights.raised # "" THEN weights
        ELSE LET positions == simulate_positions(weights.value, prices)
                 returns == _get_returns(strategy, positions, prices)
                 trades == _get_trades(positions)
                 commissions == _get_commissions(strategy, positions, prices)
             IN  IF returns.raised # "" THEN returns
                 ELSE IF commissions.raised # "" THEN commissions
                 ELSE Return([Weight |-> weights.value,
                              Position |-> positions,
                              Trade |-> trades,
                              Commission |-> commissions.value,
                              Return |-> returns.value])

\* ------------------------------------------------------------------------
\* Live trading: DataFrames indexed by ConId with one column per account
\* ------------------------------------------------------------------------
_get_signal_date == LastDate

_get_target_quantities(weights, nlvs, exchange_rates, contract_values) ==
    [i \in Instruments |-> [a \in Accounts |->
        LET target_trade_values_in_base_currency == Mul(weights[i][a], nlvs[i][a])
            target_trade_values_in_trade_currency ==
                Mul(target_trade_values_in_base_currency, exchange_rates[i][a])
            target_quantities == Div(target_trade_values_in_trade_currency, contract_values[i][a])
        IN  fillna(round(target_quantities), Zero)]]

\* The currency an instrument is converted against: its Symbol for FX (CASH).
QuoteCurrencies_settlement(prices) == loc(prices, "Currency")[_get_signal_date]
QuoteCurrencies(prices) ==
    LET currencies == loc(prices, "Currency")[_get_signal_date]
        sec_types == loc(prices, "SecType")[_get_signal_date]
        symbols == loc(prices, "Symbol")[_get_signal_date]
    IN  IF \E i \in Instruments : sec_types[i] = "CASH"
        THEN [i \in Instruments |-> IF sec_types[i] # "CASH" THEN currencies[i] ELSE symbols[i]]
        ELSE currencies

\* balances.X.reindex(allocations.index): missing for an account without a row.
NoCurrency == ""
BaseCurrencyOf(balances, a) ==
    IF a \in DOMAIN balances THEN balances[a].Currency ELSE NoCurrency
NetLiquidationOf(balances, a) ==
    IF a \in DOMAIN balances THEN balances[a].NetLiquidation ELSE NaN

\* pd.merge(currencies, exchange_rates, how="left"), then Rate = 1 where the
\* base currency equals the quote currency.
ExchangeRates_as_listed(prices, balances, exchange_rates) ==
    LET quote == QuoteCurrencies(prices)
    IN  [i \in Instruments |-> [a \in Accounts |->
            IF <<BaseCurrencyOf(balances, a), quote[i]>> \in DOMAIN exchange_rates
            THEN exchange_rates[<<BaseCurrencyOf(balances, a), quote[i]>>]
            ELSE NaN]]
ExchangeRates(prices, balances, exchange_rates) ==
    LET quote == QuoteCurrencies(prices)
    IN  [i \in Instruments |-> [a \in Accounts |->
            LET BaseCurrency == BaseCurrencyOf(balances, a)
                QuoteCurrency == quote[i]
                merged == IF <<BaseCurrency, QuoteCurrency>> \in DOMAIN exchange_rates
                          THEN exchange_rates[<<BaseCurrency, QuoteCurrency>>]
                          ELSE NaN
            IN  IF BaseCurrency # NoCurrency /\ BaseCurrency = QuoteCurrency
                THEN One ELSE merged]]

\* list_positions(...) reconciled against the target quantities.
NetQuantities_unfilled(target_quantities, positions) ==
    IF DOMAIN positions = {} THEN target_quantities
    ELSE [i \in Instruments |-> [a \in Accounts |->
            LET held == IF <<i, a>> \in DOMAIN positions THEN positions[<<i, a>>] ELSE NaN
            IN  Sub(target_quantities[i][a], held)]]
NetQuantities(target_quantities, positions) ==
    IF DOMAIN positions = {} THEN target_quantities
    ELSE [i \in Instruments |-> [a \in Accounts |->
            LET held == IF <<i, a>> \in DOMAIN positions THEN positions[<<i, a>>] ELSE NaN
            IN  Sub(target_quantities[i][a], fillna(held, Zero))]]

\* net_quantities.where(net_quantities.abs() <= max, max.where(net > 0, -max))
ClipMax(net_quantities, max_row) ==
    [i \in Instruments |-> [a \in Accounts |->
        IF Le(abs(net_quantities[i][a]), max_row[i]) THEN net_quantities[i][a]
        ELSE IF Gt(net_quantities[i][a], Zero) THEN max_row[i] ELSE Neg(max_row[i])]]
ClipMin(net_quantities, min_row) ==
    [i \in Instruments |-> [a \in Accounts |->
        IF Ge(abs(net_quantities[i][a]), min_row[i]) THEN net_quantities[i][a]
        ELSE IF Gt(net_quantities[i][a], Zero) THEN min_row[i] ELSE Neg(min_row[i])]]

\* The (ConId, Account) cells of a matrix in the row order of stack().
StackOrder ==
    [k \in 1..(NumInstruments * NumAccounts) |->
        <<((k - 1) \div NumAccounts) + 1, ((k - 1) % NumAccounts) + 1>>]

\* np.where(order_stubs.Quantity > 0, "BUY", "SELL")
Action_inverted(quantity) == IF Gt(quantity, Zero) THEN "SELL" ELSE "BUY"
Action(quantity) == IF Gt(quantity, Zero) THEN "BUY" ELSE "SELL"

\* stack() drops the missing cells; the rows with Quantity != 0 are kept.
_create_order_stubs(strategy, quantities) ==
    LET stacked == SelectSeq(StackOrder, LAMBDA c : ~isna(quantities[c[1]][c[2]]))
        kept == SelectSeq(stacked, LAMBDA c : Ne(quantities[c[1]][c[2]], Zero))
    IN  [k \in 1..Len(kept) |->
            [ConId |-> kept[k][1], Account |-> kept[k][2],
             Action |-> Action(quantities[kept[k][1]][kept[k][2]]),
             OrderRef |-> strategy.CODE,
             TotalQuantity |-> abs(quantities[kept[k][1]][kept[k][2]])]]

create_orders(orders, prices) ==
    [k \in 1..Len(orders) |->
        [ConId |-> orders[k].ConId, Account |-> orders[k].Account,
         Action |-> orders[k].Action, OrderRef |-> orders[k].OrderRef,
         TotalQuantity |-> orders[k].TotalQuantity,
         Exchange |-> "SMART", OrderType |-> "MKT", Tif |-> "DAY"]]

\* trade returns None.
NoOrders == <<>>

trade(strategy, prices, hook_weights, allocations, external) ==
    LET signal_date == _get_signal_date
        weights == [i \in Instruments |-> [a \in Accounts |->
                       Mul(hook_weights[signal_date][i], allocations[a])]]
        cv == _get_contract_values(prices)
    IN  IF cv.raised # "" THEN cv
        ELSE
        LET filled == ffill(cv.value)
            contract_values == [i \in Instruments |-> [a \in Accounts |->
                                   filled[signal_date][i]]]
            nlvs == [i \in Instruments |-> [a \in Accounts |->
                        NetLiquidationOf(external.balances, a)]]
            exchange_rates == ExchangeRates(prices, external.balances, external.exchange_rates)
            target_quantities ==
                _get_target_quantities(weights, nlvs, exchange_rates, contract_values)
            net_quantities == NetQuantities(target_quantities, external.positions)
            max_allowed == get_max_allowed_quantities(strategy, prices)
            min_allowed == get_min_allowed_quantities(strategy, prices)
            clipped_max == IF max_allowed.isNone THEN net_quantities
                           ELSE ClipMax(net_quantities, max_allowed.df[signal_date])
            clipped == IF min_allowed.isNone THEN clipped_max
                       ELSE ClipMin(clipped_max, min_allowed.df[signal_date])
            returned == \A i \in Instruments : \A a \in Accounts : Eq(net_quantities[i][a], Zero)
        IN  Return([exchange_rates |-> exchange_rates,
                    target_quantities |-> target_quantities,
                    net_quantities |-> net_quantities,
                    nothing |-> returned,
                    quantities |-> clipped,
                    orders |-> IF returned THEN NoOrders
                               ELSE create_orders(_create_order_stubs(strategy, clipped), prices)])

\* ------------------------------------------------------------------------
\* State
\* ------------------------------------------------------------------------
VARIABLES
    strategy,   \* class attributes and what the quantity hooks return
    prices,     \* the Panel of this run (_get_historical_prices)
    external,   \* account balances, exchange rates, held positions
    inputs,     \* what allocate_weights returns, and the caller's arguments
    pc,         \* "start", then the operation that has run
    result,     \* what the operation returned or raised
    inputs2,    \* a second run over the same Panel: its weights
    result2     \* and what it returned

vars == <<strategy, prices, external, inputs, pc, result, inputs2, result2>>

NoResult == [raised |-> "not run", value |-> <<>>]

\* ------------------------------------------------------------------------
\* Input domains
\* ------------------------------------------------------------------------
\* Rows of the securities master.
Stock == [SecType |-> "STK", PrimaryExchange |-> "NYSE", Currency |-> "USD",
          Symbol |-> "AAA", Multiplier |-> NaN, PriceMagnifier |-> NaN]
EuroStock == [SecType |-> "STK", PrimaryExchange |-> "FWB", Currency |-> "EUR",
              Symbol |-> "BBB", Multiplier |-> NaN, PriceMagnifier |-> Num(1)]
Future == [SecType |-> "FUT", PrimaryExchange |-> "GLOBEX", Currency |-> "USD",
           Symbol |-> "ES", Multiplier |-> Num(5), PriceMagnifier |-> NaN]
Forex == [SecType |-> "CASH", PrimaryExchange |-> "IDEALPRO", Currency |-> "USD",
          Symbol |-> "EUR", Multiplier |-> NaN, PriceMagnifier |-> NaN]

SecGroupOf(row) == <<row.SecType, row.PrimaryExchange, row.Currency>>

\* Close of an instrument: constant, rising, without a price on the second or
\* on the last date, or without any price.
ClosePrice(pattern, t, i) ==
    CASE pattern = "flat" -> Num(100)
      [] pattern = "rising" -> Num(100 * t + 100 * (i - 1))
      [] pattern = "gap" -> IF t = 2 THEN NaN ELSE Num(100 * t)
      [] pattern = "stale" -> IF t = LastDate THEN NaN ELSE Num(100 * t)
      [] pattern = "missing" -> NaN

\* _get_historical_prices: the history fields, then the master fields
\* broadcast over the dates; Nlv when an nlv dict is given.
Panel(pattern, securities, nlv) ==
    [fields |-> {"Close", "Multiplier", "PriceMagnifier", "SecType", "PrimaryExchange",
                 "Currency", "Symbol"} \cup (IF nlv.isNone THEN {} ELSE {"Nlv"}),
     data |-> [f \in {"Close"} |-> [t \in Dates |-> [i \in Instruments |->
                  ClosePrice(pattern[i], t, i)]]],
     master |-> [f \in ReferenceFields |-> [i \in Instruments |->
                  IF f = "Nlv"
                  THEN (IF nlv.isNone THEN NaN ELSE nlv.df[securities[i].Currency])
                  ELSE securities[i][f]]]]

NoNlv == None
NlvDict == Some([c \in {"USD", "EUR"} |-> Num(1000)])

\* Weights of the allocation hook: a signal in {0, 1} times the size the
\* hook gives the instrument.
SizeOf(i) == IF i % 2 = 1 THEN Num(2) ELSE Num(-1)
WeightsOf(signals) == [t \in Dates |-> [i \in Instruments |-> Mul(Num(signals[t][i]), SizeOf(i))]]
Signals == [Dates -> [Instruments -> {0, 1}]]

Constant(q) == Some(DataFrame(q))

NoExternal == [balances |-> <<>>, exchange_rates |-> <<>>, positions |-> <<>>]
NoInputs == [weights |-> <<>>, allocation |-> One, allocations |-> <<>>]

Strategy(commission, slippage_classes, bps, max_q, min_q) ==
    [CODE |-> "my-strategy",
     COMMISSION_CLASS |-> commission,
     SLIPPAGE_CLASSES |-> slippage_classes,
     SLIPPAGE_BPS |-> bps,
     max_allowed_quantities |-> max_q,
     min_allowed_quantities |-> min_q]

\* ------------------------------------------------------------------------
\* Backtest of one strategy over one Panel
\* ------------------------------------------------------------------------
OneCommission == CommissionClass([rate |-> Frac(1, 100)])

\* Strategies and Panels of the backtests: costs, quantity bound, closes and
\* the caller's allocation.
BacktestConfigs ==
    {[strategy |-> Strategy(NoCommission, <<>>, 0, None, None),
      pattern |-> "rising", allocation |-> One],
     [strategy |-> Strategy(OneCommission, <<Frac(1, 1000)>>, 0,
                            Constant(Num(15)), Constant(Num(12))),
      pattern |-> "flat", allocation |-> One],
     [strategy |-> Strategy(NoCommission, <<Frac(1, 1000), Frac(2, 1000)>>, 5, None, None),
      pattern |-> "gap", allocation |-> Zero],
     [strategy |-> Strategy(OneCommission, <<Frac(1, 1000)>>, 0, Constant(Num(15)), None),
      pattern |-> "rising", allocation |-> Frac(1, 2)]}

InitBacktest ==
    /\ \E config \in BacktestConfigs, signals \in Signals :
          /\ strategy = config.strategy
          /\ prices = Panel([i \in Instruments |-> config.pattern],
                            [i \in Instruments |-> Stock], NlvDict)
          /\ inputs = [weights |-> WeightsOf(signals), allocation |-> config.allocation,
                       allocations |-> <<>>]
    /\ external = NoExternal
    /\ pc = "start"
    /\ result = NoResult
    /\ inputs2 = NoInputs
    /\ result2 = NoResult

Backtest ==
    /\ pc = "start"
    /\ result' = backtest(strategy, prices, inputs.weights, inputs.allocation)
    /\ pc' = "backtest"
    /\ UNCHANGED <<strategy, prices, external, inputs, inputs2, result2>>

SpecBacktest == InitBacktest /\ [][Backtest]_vars

\* C1: under the default simulate_positions, the position of every date after
\* the first is the previous date's weight, where the weight is the hook's
\* weight scaled by the allocation and constrained, and the position of the
\* first date is missing.
ConstrainedWeights ==
    _constrain_weights(strategy, MScale(inputs.weights, OrOne(inputs.allocation)), prices).value

C1_PositionIsLaggedWeight ==
    (pc = "backtest" /\ result.raised = "") =>
        /\ result.value.Weight = ConstrainedWeights
        /\ \A i \in Instruments :
              /\ isna(result.value.Position[1][i])
              /\ \A t \in Dates \ {1} :
                    result.value.Position[t][i] = result.value.Weight[t - 1][i]

\* A backtest where the constraint changed a weight, and the position taken from
\* it differs from the weight of the position's own date.
C1_Witness ==
    /\ pc = "backtest"
    /\ result.raised = ""
    /\ \E i \in Instruments : \E t \in Dates \ {1} :
          /\ result.value.Weight[t - 1][i] #
                 Mul(inputs.weights[t - 1][i], OrOne(inputs.allocation))
          /\ result.value.Position[t][i] = result.value.Weight[t - 1][i]
          /\ result.value.Position[t][i] # result.value.Weight[t][i]

\* C3: in every cell the Return of the backtest is the gross return minus the
\* commission minus the slippage computed from the same Positions and Panel,
\* and the Commission field is that commission.
C3_ReturnIsGrossMinusCosts ==
    (pc = "backtest" /\ result.raised = "") =>
        LET positions == result.value.Position
            gross == simulate_gross_returns(positions, prices)
            commissions == _get_commissions(strategy, positions, prices).value
            slippage == _get_slippage(strategy, positions, prices)
        IN  /\ result.value.Commission = commissions
            /\ \A t \in Dates : \A i \in Instruments :
                  result.value.Return[t][i] =
                      Sub(Sub(gross[t][i], result.value.Commission[t][i]), slippage[t][i])

\* A backtest with a cell where the gross return, the commission and the
\* slippage are all present and not zero.
C3_Witness ==
    /\ pc = "backtest"
    /\ result.raised = ""
    /\ \E t \in Dates : \E i \in Instruments :
          /\ Gt(result.value.Commission[t][i], Zero)
          /\ Gt(_get_slippage(strategy, result.value.Position, prices)[t][i], Zero)
          /\ Ne(simulate_gross_returns(result.value.Position, prices)[t][i], Zero)
          /\ IsFinite(result.value.Return[t][i])

\* ------------------------------------------------------------------------
\* Two backtests over the same Panel
\* ------------------------------------------------------------------------
\* The second run's weights: those of the first with the weight of every
\* instrument changed (to the instrument's size where it was zero, to zero
\* elsewhere) on one date, or on every date from that date on.
Changed(weights, date, mode) ==
    [t \in Dates |-> [i \in Instruments |->
        IF (mode = "date" /\ t = date) \/ (mode = "from" /\ t >= date)
        THEN (IF weights[t][i] = Zero THEN SizeOf(i) ELSE Zero)
        ELSE weights[t][i]]]

InitTwoRuns ==
    /\ strategy = Strategy(OneCommission, <<Frac(1, 1000)>>, 0, Constant(Num(15)), None)
    /\ prices = Panel([i \in Instruments |-> "rising"], [i \in Instruments |-> Stock], NlvDict)
    /\ external = NoExternal
    /\ \E signals \in Signals :
          inputs = [weights |-> WeightsOf(signals), allocation |-> One, allocations |-> <<>>]
    /\ inputs2 = NoInputs
    /\ pc = "start"
    /\ result = NoResult
    /\ result2 = NoResult

Backtest2 ==
    /\ pc = "backtest"
    /\ \E date \in Dates, mode \in {"date", "from"} :
          /\ inputs2' = [weights |-> Changed(inputs.weights, date, mode),
                         allocation |-> inputs.allocation, allocations |-> <<>>]
          /\ result2' = backtest(strategy, prices, inputs2'.weights, inputs2'.allocation)
    /\ pc' = "backtest2"
    /\ UNCHANGED <<strategy, prices, external, inputs, result>>

NextTwoRuns == Backtest \/ Backtest2

SpecTwoRuns == InitTwoRuns /\ [][NextTwoRuns]_vars

AgreeBefore(t) ==
    \A s \in Dates : s < t => inputs.weights[s] = inputs2.weights[s]

\* C2: two backtests over the same Panel whose weights agree on every date
\* before t have the same Position, Trade, Commission and Return on date t,
\* whatever their weights are from t on.
C2_NoLookahead ==
    (pc = "backtest2" /\ result.raised = "" /\ result2.raised = "") =>
        \A t \in Dates : AgreeBefore(t) =>
            /\ result.value.Position[t] = result2.value.Position[t]
            /\ result.value.Trade[t] = result2.value.Trade[t]
            /\ result.value.Commission[t] = result2.value.Commission[t]
            /\ result.value.Return[t] = result2.value.Return[t]

\* Two backtests whose weights first differ on a date t: they agree on t in
\* all four fields and differ on a later date.
C2_Witness ==
    /\ pc = "backtest2"
    /\ result.raised = ""
    /\ result2.raised = ""
    /\ \E t \in Dates \ {1} :
          /\ AgreeBefore(t)
          /\ inputs.weights[t] # inputs2.weights[t]
          /\ result.value.Position[t] = result2.value.Position[t]
          /\ result.value.Return[t] = result2.value.Return[t]
          /\ \E i \in Instruments : ~isna(result.value.Position[t][i])
          /\ \E u \in Dates : u > t /\ result.value.Position[u] # result2.value.Position[u]

\* ------------------------------------------------------------------------
\* Commissions and slippage of the positions of a backtest
\* ------------------------------------------------------------------------
SecurityRows == {Stock, EuroStock, Future}

\* Signals that are the same for every instrument of a date.
RowSignals == {[t \in Dates |-> [i \in Instruments |-> s[t]]] : s \in [Dates -> {0, 1}]}

RateOf(sec_group) ==
    CASE sec_group = SecGroupOf(Stock) -> Frac(1, 100)
      [] sec_group = SecGroupOf(EuroStock) -> Frac(2, 100)
      [] sec_group = SecGroupOf(Future) -> Frac(3, 100)

CommissionDicts ==
    {CommissionDict([g \in groups |-> [rate |-> RateOf(g)]]) :
        groups \in SUBSET {SecGroupOf(row) : row \in SecurityRows}}

\* (COMMISSION_CLASS, SLIPPAGE_CLASSES, SLIPPAGE_BPS)
CostConfigs ==
    {<<c, <<>>, 0>> : c \in {NoCommission, OneCommission} \cup CommissionDicts}
    \cup {<<NoCommission, classes, bps>> :
             classes \in {<<>>, <<Frac(1, 1000)>>, <<Frac(1, 1000), Frac(2, 1000)>>},
             bps \in {0, 5}}

InitCosts ==
    /\ \E cost \in CostConfigs, securities \in [Instruments -> SecurityRows] :
          /\ strategy = Strategy(cost[1], cost[2], cost[3], None, None)
          /\ prices = Panel([i \in Instruments |-> "rising"], securities, NlvDict)
    /\ \E signals \in RowSignals :
          inputs = [weights |-> WeightsOf(signals), allocation |-> One, allocations |-> <<>>]
    /\ external = NoExternal
    /\ pc = "start"
    /\ result = NoResult
    /\ inputs2 = NoInputs
    /\ result2 = NoResult

GetCommissions ==
    /\ pc = "start"
    /\ result' = _get_commissions(strategy, simulate_positions(inputs.weights, prices), prices)
    /\ pc' = "_get_commissions"
    /\ UNCHANGED <<strategy, prices, external, inputs, inputs2, result2>>

GetSlippage ==
    /\ pc = "start"
    /\ result' = Return(_get_slippage(strategy, simulate_positions(inputs.weights, prices),
                                      prices))
    /\ pc' = "_get_slippage"
    /\ UNCHANGED <<strategy, prices, external, inputs, inputs2, result2>>

NextCosts == GetCommissions \/ GetSlippage

SpecCosts == InitCosts /\ [][NextCosts]_vars

\* The (security type, venue, currency) combinations of the instruments.
PresentSecGroups ==
    {<<prices.master["SecType"][i], prices.master["PrimaryExchange"][i],
       prices.master["Currency"][i]>> : i \in Instruments}

MissingSecGroups == PresentSecGroups \ DOMAIN strategy.COMMISSION_CLASS.classes

\* C4: with a dict of commission classes, _get_commissions raises, naming the
\* missing combinations, whenever a combination present among the instruments
\* has no class, and it does not raise when every present combination has one.
C4_MissingGroupRaises ==
    (pc = "_get_commissions" /\ strategy.COMMISSION_CLASS.kind = "dict") =>
        IF MissingSecGroups # {}
        THEN /\ result.raised = "ValueError: expected a commission class"
             /\ result.value = MissingSecGroups
        ELSE result.raised = ""

\* The same for a dict that has at least one entry.
C4_MissingGroupRaisesNonEmptyDict ==
    (DOMAIN strategy.COMMISSION_CLASS.classes # {}) => C4_MissingGroupRaises

\* C5: when all instruments are of one (security type, venue, currency) group,
\* the commissions of a dict that maps the group to a class are, in every cell,
\* those of that class configured alone.
C5_SingleGroupDictEqualsClass ==
    (/\ pc = "_get_commissions"
     /\ strategy.COMMISSION_CLASS.kind = "dict"
     /\ Cardinality(PresentSecGroups) = 1
     /\ PresentSecGroups \subseteq DOMAIN strategy.COMMISSION_CLASS.classes) =>
        LET sec_group == CHOOSE g \in PresentSecGroups : TRUE
            alone == [strategy EXCEPT !.COMMISSION_CLASS =
                         CommissionClass(strategy.COMMISSION_CLASS.classes[sec_group])]
            commissions == _get_commissions(alone, simulate_positions(inputs.weights, prices),
                                            prices)
        IN  /\ result.raised = ""
            /\ commissions.raised = ""
            /\ \A t \in Dates : \A i \in Instruments :
                  result.value[t][i] = commissions.value[t][i]

\* Commissions of a dict with a second entry, all instruments in one group, and
\* a commission that is charged.
C5_Witness ==
    /\ pc = "_get_commissions"
    /\ strategy.COMMISSION_CLASS.kind = "dict"
    /\ Cardinality(PresentSecGroups) = 1
    /\ PresentSecGroups \subseteq DOMAIN strategy.COMMISSION_CLASS.classes
    /\ Cardinality(DOMAIN strategy.COMMISSION_CLASS.classes) > 1
    /\ result.raised = ""
    /\ \E t \in Dates : \E i \in Instruments : Gt(result.value[t][i], Zero)

\* The slippage of every configured class, summed cell by cell from zero.
RECURSIVE SumOfClasses(_, _, _)
SumOfClasses(k, t, i) ==
    IF k = 0 THEN Zero
    ELSE LET positions == simulate_positions(inputs.weights, prices)
         IN  Add(SumOfClasses(k - 1, t, i),
                 get_slippage(strategy.SLIPPAGE_CLASSES[k], _get_trades(positions),
                              positions, prices)[t][i])

\* C6: the slippage is the cell-wise sum of the configured slippage classes;
\* with a nonzero SLIPPAGE_BPS it is the flat-rate slippage alone; without
\* classes and SLIPPAGE_BPS it is zero in every cell; and without a commission
\* class the commission is zero in every cell.
C6_SlippageSumOrFlatRate ==
    /\ pc = "_get_slippage" =>
          LET positions == simulate_positions(inputs.weights, prices)
              flat == get_slippage(Frac(strategy.SLIPPAGE_BPS, 10000), _get_trades(positions),
                                   positions, prices)
          IN  \A t \in Dates : \A i \in Instruments :
                 /\ strategy.SLIPPAGE_BPS # 0 => result.value[t][i] = flat[t][i]
                 /\ strategy.SLIPPAGE_BPS = 0 =>
                       result.value[t][i] = SumOfClasses(Len(strategy.SLIPPAGE_CLASSES), t, i)
                 /\ (strategy.SLIPPAGE_BPS = 0 /\ strategy.SLIPPAGE_CLASSES = <<>>) =>
                       result.value[t][i] = Zero
    /\ (pc = "_get_commissions" /\ strategy.COMMISSION_CLASS.kind = "None") =>
          /\ result.raised = ""
          /\ \A t \in Dates : \A i \in Instruments : result.value[t][i] = Zero

\* Slippage with classes and a SLIPPAGE_BPS configured, and a trade that pays it.
C6_Witness ==
    /\ pc = "_get_slippage"
    /\ strategy.SLIPPAGE_BPS # 0
    /\ strategy.SLIPPAGE_CLASSES # <<>>
    /\ \E t \in Dates : \E i \in Instruments :
          /\ Gt(result.value[t][i], Zero)
          /\ Gt(SumOfClasses(Len(strategy.SLIPPAGE_CLASSES), t, i), Zero)

\* ------------------------------------------------------------------------
\* The weight constraint, applied once and then to its own output
\* ------------------------------------------------------------------------
\* (max_allowed_quantities, min_allowed_quantities, nlv, closes)
ConstraintConfigs ==
    {<<None, None, NoNlv, "flat">>,
     <<None, None, NlvDict, "rising">>,
     <<Constant(Num(15)), None, NoNlv, "flat">>,
     <<None, Constant(Num(12)), NoNlv, "rising">>,
     <<Constant(Num(15)), Constant(Num(12)), NoNlv, "flat">>,
     <<Constant(Num(15)), None, NlvDict, "flat">>,
     <<Constant(Num(15)), None, NlvDict, "gap">>,
     <<None, Constant(Num(12)), NlvDict, "flat">>,
     <<Constant(Num(15)), Constant(Num(12)), NlvDict, "flat">>,
     <<Constant(Num(15)), Constant(Num(6)), NlvDict, "rising">>,
     <<Constant(Num(0)), None, NlvDict, "flat">>}

InitConstrain ==
    /\ \E config \in ConstraintConfigs :
          /\ strategy = Strategy(NoCommission, <<>>, 0, config[1], config[2])
          /\ prices = Panel([i \in Instruments |-> config[4]],
                            [i \in Instruments |-> Stock], config[3])
    /\ \E signals \in Signals :
          inputs = [weights |-> WeightsOf(signals), allocation |-> One, allocations |-> <<>>]
    /\ external = NoExternal
    /\ pc = "start"
    /\ result = NoResult
    /\ inputs2 = NoInputs
    /\ result2 = NoResult

ConstrainWeights ==
    /\ pc = "start"
    /\ result' = _constrain_weights(strategy, inputs.weights, prices)
    /\ pc' = "_constrain_weights"
    /\ UNCHANGED <<strategy, prices, external, inputs, inputs2, result2>>

\* The engine applied to what it returned, with the same Panel and bounds.
ConstrainAgain ==
    /\ pc = "_constrain_weights"
    /\ result.raised = ""
    /\ inputs2' = [weights |-> result.value, allocation |-> One, allocations |-> <<>>]
    /\ result2' = _constrain_weights(strategy, result.value, prices)
    /\ pc' = "_constrain_weights again"
    /\ UNCHANGED <<strategy, prices, external, inputs, result>>

NextConstrain == ConstrainWeights \/ ConstrainAgain

SpecConstrain == InitConstrain /\ [][NextConstrain]_vars

\* C7 as stated: the engine applied to its own output returns it unchanged.
C7_Idempotent ==
    (pc = "_constrain_weights again" /\ result2.raised = "") =>
        \A t \in Dates : \A i \in Instruments : result2.value[t][i] = result.value[t][i]

BoundAt(bound, t, i) == IF bound.isNone THEN NaN ELSE bound.df[t][i]

\* The bounds are quantities (not negative) with min <= max where both are set.
BoundsOrdered ==
    \A t \in Dates : \A i \in Instruments :
        LET max_q == BoundAt(strategy.max_allowed_quantities, t, i)
            min_q == BoundAt(strategy.min_allowed_quantities, t, i)
        IN  /\ isna(max_q) \/ Ge(max_q, Zero)
            /\ isna(min_q) \/ Ge(min_q, Zero)
            /\ isna(max_q) \/ isna(min_q) \/ Le(min_q, max_q)

\* C7 amended: with bounds that are not negative and min <= max, the engine
\* applied to its own output changes a cell only if the cell carried no trade
\* in the first input (its weight was the previous date's weight) and the
\* first application changed the previous date's weight.
C7_IdempotentButForHeldCells ==
    (pc = "_constrain_weights again" /\ result2.raised = "" /\ BoundsOrdered) =>
        \A t \in Dates : \A i \in Instruments :
            result2.value[t][i] # result.value[t][i] =>
                /\ t > 1
                /\ inputs.weights[t][i] = inputs.weights[t - 1][i]
                /\ result.value[t - 1][i] # inputs.weights[t - 1][i]

\* The engine applied twice with a bound set: the first application changed a
\* weight and the second left every weight as it was.
C7_Witness ==
    /\ pc = "_constrain_weights again"
    /\ result2.raised = ""
    /\ BoundsOrdered
    /\ ~strategy.max_allowed_quantities.isNone
    /\ ~strategy.min_allowed_quantities.isNone
    /\ \E t \in Dates : \E i \in Instruments : result.value[t][i] # inputs.weights[t][i]
    /\ result2.value = result.value

BoundConfigured ==
    ~strategy.max_allowed_quantities.isNone \/ ~strategy.min_allowed_quantities.isNone

\* C8: when a bound is configured and the Panel has no Nlv field the engine
\* raises the missing-NLV error; when neither bound is configured it returns
\* the input weights and raises nothing, with or without an Nlv field.
C8_MissingNlvRaises ==
    pc = "_constrain_weights" =>
        /\ (BoundConfigured /\ "Nlv" \notin prices.fields) =>
              result.raised = "ValueError: must provide NLVs to constrain weights"
        /\ ~BoundConfigured => (result.raised = "" /\ result.value = inputs.weights)

\* The engine with only one of the two bounds configured and no Nlv field.
C8_Witness ==
    /\ pc = "_constrain_weights"
    /\ ~strategy.max_allowed_quantities.isNone
    /\ strategy.min_allowed_quantities.isNone
    /\ "Nlv" \notin prices.fields
    /\ result.raised = "ValueError: must provide NLVs to constrain weights"

\* ------------------------------------------------------------------------
\* Live trading
\* ------------------------------------------------------------------------
\* Weights of the allocation hook that are zero before the signal date.
LastRowWeights ==
    {[t \in Dates |-> [i \in Instruments |->
         IF t = LastDate THEN Mul(Num(s[i]), SizeOf(i)) ELSE Zero]] :
        s \in [Instruments -> {0, 1}]}

Allocations ==
    {[a \in Accounts |-> One], [a \in Accounts |-> Frac(1, 2)], [a \in Accounts |-> Frac(1, a)]}

Balance(currency) == [NetLiquidation |-> Num(100000), Currency |-> currency]

\* download_account_balances: a row for every account, or none for the first.
Balances ==
    {[a \in Accounts |-> Balance(c[a])] : c \in [Accounts -> {"USD", "EUR"}]}
    \cup {[a \in Accounts \ {1} |-> Balance("USD")]}

\* download_exchange_rates: (BaseCurrency, QuoteCurrency) -> Rate
ExchangeRateTables ==
    {<<>>,
     [pair \in {<<"EUR", "USD">>} |-> Frac(5, 4)],
     [pair \in {"USD", "EUR"} \X {"USD", "EUR"} |->
         CASE pair = <<"EUR", "USD">> -> Frac(5, 4)
           [] pair = <<"USD", "EUR">> -> Frac(4, 5)
           [] OTHER -> Num(3)]}

\* list_positions: nothing, one (ConId, Account) row, or a row for every cell.
HeldPositions ==
    {<<>>}
    \cup {[c \in {cell} |-> Num(1000)] : cell \in Instruments \X Accounts}
    \cup {[c \in Instruments \X Accounts |-> Num(-7)]}

InitTrade ==
    /\ strategy = Strategy(NoCommission, <<>>, 0, None, None)
    /\ \E first \in {"flat", "rising", "stale", "missing"},
          securities \in {[i \in Instruments |-> Stock],
                          [i \in Instruments |-> IF i = 1 THEN Forex ELSE EuroStock]} :
          prices = Panel([i \in Instruments |-> IF i = 1 THEN first ELSE "rising"],
                         securities, NoNlv)
    /\ \E balances \in Balances, exchange_rates \in ExchangeRateTables,
          positions \in HeldPositions :
          external = [balances |-> balances, exchange_rates |-> exchange_rates,
                      positions |-> positions]
    /\ \E weights \in LastRowWeights, allocations \in Allocations :
          inputs = [weights |-> weights, allocation |-> One, allocations |-> allocations]
    /\ pc = "start"
    /\ result = NoResult
    /\ inputs2 = NoInputs
    /\ result2 = NoResult

Trade ==
    /\ pc = "start"
    /\ result' = trade(strategy, prices, inputs.weights, inputs.allocations, external)
    /\ pc' = "trade"
    /\ UNCHANGED <<strategy, prices, external, inputs, inputs2, result2>>

SpecTrade == InitTrade /\ [][Trade]_vars

\* The inputs of the quantity of a cell.
CellWeight(i, a) == Mul(inputs.weights[LastDate][i], inputs.allocations[a])
CellNlv(a) == NetLiquidationOf(external.balances, a)
CellContractValue(i) == ffill(_get_contract_values(prices).value)[LastDate][i]
CellValue(i, a) ==
    Div(Mul(Mul(CellWeight(i, a), CellNlv(a)), result.value.exchange_rates[i][a]),
        CellContractValue(i))
RateListed(i, a) ==
    <<BaseCurrencyOf(external.balances, a), QuoteCurrencies(prices)[i]>>
        \in DOMAIN external.exchange_rates

\* C9: the target quantity of a cell is the integer nearest to
\* weight x NLV x exchange rate / contract value, and zero when one of them is
\* missing, such as the rate of a currency pair that the rate table lacks;
\* weight 1, NLV 100,000, contract value 100 and rate 1 give 1,000.
C9_TargetQuantityIsRounded ==
    (pc = "trade" /\ result.raised = "") =>
        \A i \in Instruments : \A a \in Accounts :
            LET quantity == result.value.target_quantities[i][a]
                exact == CellValue(i, a)
            IN  /\ IsFinite(exact) =>
                      /\ quantity.d = 1
                      /\ Le(abs(Sub(quantity, exact)), Frac(1, 2))
                /\ isna(exact) => quantity = Zero
                /\ (\/ isna(CellWeight(i, a))
                    \/ isna(CellNlv(a))
                    \/ isna(CellContractValue(i))
                    \/ isna(result.value.exchange_rates[i][a])) => quantity = Zero
                /\ (/\ ~RateListed(i, a)
                    /\ BaseCurrencyOf(external.balances, a) # QuoteCurrencies(prices)[i]) =>
                      quantity = Zero
                /\ (/\ CellWeight(i, a) = One
                    /\ CellNlv(a) = Num(100000)
                    /\ CellContractValue(i) = Num(100)
                    /\ result.value.exchange_rates[i][a] = One) => quantity = Num(1000)

\* A run with the cell of scenario A, a cell that is rounded up, and a cell
\* whose currency pair has no rate while its other inputs are present.
C9_Witness ==
    /\ pc = "trade"
    /\ result.raised = ""
    /\ \E i \in Instruments : \E a \in Accounts :
          /\ CellWeight(i, a) = One
          /\ CellNlv(a) = Num(100000)
          /\ CellContractValue(i) = Num(100)
          /\ result.value.exchange_rates[i][a] = One
          /\ result.value.target_quantities[i][a] = Num(1000)
    /\ \E i \in Instruments : \E a \in Accounts :
          /\ ~RateListed(i, a)
          /\ isna(result.value.exchange_rates[i][a])
          /\ CellWeight(i, a) # Zero
          /\ ~isna(CellNlv(a))
          /\ ~isna(CellContractValue(i))
          /\ result.value.target_quantities[i][a] = Zero

\* What list_positions reported for a cell, zero when it reported nothing.
HeldQuantity(i, a) ==
    IF <<i, a>> \in DOMAIN external.positions THEN external.positions[<<i, a>>] ELSE Zero

\* C10: the net quantity of a cell is its target quantity minus the quantity
\* held for that instrument and account, zero when none is reported; when no
\* position is reported at all the net quantities are the target quantities.
C10_NetIsTargetMinusHeld ==
    (pc = "trade" /\ result.raised = "") =>
        /\ \A i \in Instruments : \A a \in Accounts :
              result.value.net_quantities[i][a] =
                  Sub(result.value.target_quantities[i][a], HeldQuantity(i, a))
        /\ DOMAIN external.positions = {} =>
              result.value.net_quantities = result.value.target_quantities

\* A run where one cell has a reported holding and another cell, with a target,
\* has none.
C10_Witness ==
    /\ pc = "trade"
    /\ result.raised = ""
    /\ \E c \in DOMAIN external.positions :
          /\ external.positions[c] # Zero
          /\ result.value.net_quantities[c[1]][c[2]] #
                 result.value.target_quantities[c[1]][c[2]]
    /\ \E i \in Instruments : \E a \in Accounts :
          /\ <<i, a>> \notin DOMAIN external.positions
          /\ result.value.target_quantities[i][a] # Zero
          /\ result.value.net_quantities[i][a] = result.value.target_quantities[i][a]

\* ------------------------------------------------------------------------
\* Live trading with quantity bounds
\* ------------------------------------------------------------------------
\* Weights of the allocation hook on the signal date: short, flat or long.
SignedLastRowWeights ==
    {[t \in Dates |-> [i \in Instruments |-> IF t = LastDate THEN Num(s[i]) ELSE Zero]] :
        s \in [Instruments -> {-1, 0, 1}]}

\* (max_allowed_quantities, min_allowed_quantities)
QuantityBounds ==
    {<<None, None>>,
     <<Constant(Num(300)), None>>,
     <<Constant(Zero), None>>,
     <<Constant(NaN), None>>,
     <<None, Constant(Num(700))>>,
     <<Constant(Num(800)), Constant(Num(600))>>}

\* list_positions: nothing, 1000 in every cell, or 1000 in one cell.
HeldThousands ==
    {<<>>, [c \in Instruments \X Accounts |-> Num(1000)]}
    \cup {[c \in {cell} |-> Num(1000)] : cell \in Instruments \X Accounts}

InitOrders ==
    /\ \E bounds \in QuantityBounds :
          strategy = Strategy(NoCommission, <<>>, 0, bounds[1], bounds[2])
    /\ prices = Panel([i \in Instruments |-> "flat"], [i \in Instruments |-> Stock], NoNlv)
    /\ \E positions \in HeldThousands :
          external = [balances |-> [a \in Accounts |-> Balance("USD")],
                      exchange_rates |-> <<>>,
                      positions |-> positions]
    /\ \E weights \in SignedLastRowWeights,
          allocations \in {[a \in Accounts |-> One], [a \in Accounts |-> Frac(1, a)]} :
          inputs = [weights |-> weights, allocation |-> One, allocations |-> allocations]
    /\ pc = "start"
    /\ result = NoResult
    /\ inputs2 = NoInputs
    /\ result2 = NoResult

SpecOrders == InitOrders /\ [][Trade]_vars

AllNetZero ==
    \A i \in Instruments : \A a \in Accounts : result.value.net_quantities[i][a] = Zero

\* C11: trade returns nothing when every net quantity is zero; otherwise it
\* returns at least one order; every order has a strictly positive quantity,
\* with or without quantity bounds.
C11_NothingOrPositiveOrders ==
    (pc = "trade" /\ result.raised = "") =>
        /\ AllNetZero => (result.value.nothing /\ result.value.orders = NoOrders)
        /\ ~AllNetZero => (~result.value.nothing /\ Len(result.value.orders) >= 1)
        /\ \A k \in DOMAIN result.value.orders :
              Gt(result.value.orders[k].TotalQuantity, Zero)

\* The part of C11 that holds of every run: nothing is returned exactly when
\* every net quantity is zero, and no order has a quantity that is not positive.
C11_NothingIffAllNetZero ==
    (pc = "trade" /\ result.raised = "") =>
        /\ AllNetZero <=> result.value.nothing
        /\ \A k \in DOMAIN result.value.orders :
              Gt(result.value.orders[k].TotalQuantity, Zero)

\* ------------------------------------------------------------------------
\* Order stubs of a matrix of quantities
\* ------------------------------------------------------------------------
\* Matrices of whole quantities, and matrices with one missing cell.
QuantityMatrices ==
    [Instruments -> [Accounts -> {Num(-5), Zero, Num(3)}]]
    \cup {[i \in Instruments |-> [a \in Accounts |-> IF <<i, a>> = c THEN NaN ELSE q]] :
             c \in Instruments \X Accounts, q \in {Num(-5), Zero, Num(3)}}

InitStubs ==
    /\ strategy = Strategy(NoCommission, <<>>, 0, None, None)
    /\ prices = Panel([i \in Instruments |-> "flat"], [i \in Instruments |-> Stock], NoNlv)
    /\ external = NoExternal
    /\ \E quantities \in QuantityMatrices :
          inputs = [weights |-> <<>>, allocation |-> One, allocations |-> <<>>,
                    quantities |-> quantities]
    /\ pc = "start"
    /\ result = NoResult
    /\ inputs2 = NoInputs
    /\ result2 = NoResult

CreateOrderStubs ==
    /\ pc = "start"
    /\ result' = Return(_create_order_stubs(strategy, inputs.quantities))
    /\ pc' = "_create_order_stubs"
    /\ UNCHANGED <<strategy, prices, external, inputs, inputs2, result2>>

SpecStubs == InitStubs /\ [][CreateOrderStubs]_vars

\* The rows of the stub table for a cell.
StubsOf(i, a) == {k \in DOMAIN result.value : result.value[k].ConId = i /\ result.value[k].Account = a}

\* C12: the stub table has exactly one row for every cell with a non-zero
\* quantity and none for a zero cell; the row carries the cell's instrument and
\* account, BUY for a positive and SELL for a negative quantity, the absolute
\* value of the quantity, and the strategy code as OrderRef.
C12_OneStubPerNonZeroCell ==
    pc = "_create_order_stubs" =>
        \A i \in Instruments : \A a \in Accounts :
            LET quantity == inputs.quantities[i][a]
            IN  /\ quantity = Zero => StubsOf(i, a) = {}
                /\ isna(quantity) => StubsOf(i, a) = {}
                /\ (~isna(quantity) /\ quantity # Zero) =>
                      /\ Cardinality(StubsOf(i, a)) = 1
                      /\ \A k \in StubsOf(i, a) :
                            /\ result.value[k].Action =
                                  (IF Gt(quantity, Zero) THEN "BUY" ELSE "SELL")
                            /\ result.value[k].TotalQuantity = abs(quantity)
                            /\ result.value[k].OrderRef = strategy.CODE

\* A matrix with a bought, a sold and an untouched cell.
C12_Witness ==
    /\ pc = "_create_order_stubs"
    /\ \E k \in DOMAIN result.value :
          result.value[k].Action = "BUY" /\ result.value[k].TotalQuantity = Num(3)
    /\ \E k \in DOMAIN result.value :
          result.value[k].Action = "SELL" /\ result.value[k].TotalQuantity = Num(5)
    /\ \E i \in Instruments : \E a \in Accounts :
          inputs.quantities[i][a] = Zero /\ StubsOf(i, a) = {}

\* ------------------------------------------------------------------------
\* Currency conversion in live trading
\* ------------------------------------------------------------------------
\* The quote currency of an instrument, read from the securities master.
QuoteOf(i) ==
    IF prices.master["SecType"][i] = "CASH"
    THEN prices.master["Symbol"][i]
    ELSE prices.master["Currency"][i]

\* C13: a cell of the exchange-rate matrix whose account base currency equals
\* the instrument's quote currency holds exactly 1, whether the rate table has
\* no row for that pair or a row with another value.
C13_SameCurrencyRateIsOne ==
    (pc = "trade" /\ result.raised = "") =>
        \A i \in Instruments : \A a \in DOMAIN external.balances :
            external.balances[a].Currency = QuoteOf(i) =>
                result.value.exchange_rates[i][a] = One

\* A run with a same-currency cell whose pair the table lists with a rate
\* other than 1, next to a cell of two currencies converted at the listed rate.
C13_Witness ==
    /\ pc = "trade"
    /\ result.raised = ""
    /\ \E i \in Instruments : \E a \in DOMAIN external.balances :
          /\ external.balances[a].Currency = QuoteOf(i)
          /\ <<QuoteOf(i), QuoteOf(i)>> \in DOMAIN external.exchange_rates
          /\ external.exchange_rates[<<QuoteOf(i), QuoteOf(i)>>] # One
          /\ result.value.exchange_rates[i][a] = One
    /\ \E i \in Instruments : \E a \in DOMAIN external.balances :
          /\ external.balances[a].Currency # QuoteOf(i)
          /\ result.value.exchange_rates[i][a] = Frac(5, 4)

\* C14: the rate of a cell is looked up for the pair (account base currency,
\* quote currency), where the quote currency is the Symbol of an instrument of
\* security type CASH and the Currency of any other instrument.
C14_QuoteCurrencyIsSymbolForFx ==
    (pc = "trade" /\ result.raised = "") =>
        \A i \in Instruments : \A a \in DOMAIN external.balances :
            LET pair == <<external.balances[a].Currency, QuoteOf(i)>>
            IN  result.value.exchange_rates[i][a] =
                    IF pair[1] = pair[2] THEN One
                    ELSE IF pair \in DOMAIN external.exchange_rates
                         THEN external.exchange_rates[pair]
                         ELSE NaN

\* Scenario C: one FX instrument (Symbol EUR, Currency USD), a USD account
\* converted at the USD-to-EUR rate and a EUR account converted at 1.
C14_Witness ==
    /\ pc = "trade"
    /\ result.raised = ""
    /\ \E i \in Instruments : \E a, b \in DOMAIN external.balances :
          /\ prices.master["SecType"][i] = "CASH"
          /\ prices.master["Symbol"][i] = "EUR"
          /\ prices.master["Currency"][i] = "USD"
          /\ external.balances[a].Currency = "USD"
          /\ external.balances[b].Currency = "EUR"
          /\ result.value.exchange_rates[i][a] = Frac(4, 5)
          /\ result.value.exchange_rates[i][b] = One

\* ------------------------------------------------------------------------
\* What the weight constraint does to one cell
\* ------------------------------------------------------------------------
\* The quantity a weight implies: |weight| x NLV / contract value of the
\* previous date.
ImpliedQuantity(weight, t, i) ==
    Div(Mul(abs(weight), loc(prices, "Nlv")[t][i]),
        shift(_get_contract_values(prices).value)[t][i])

\* A trade occurs in a cell: its weight differs from the previous date's.
TradeOccurs(t, i) ==
    /\ t > 1
    /\ ~isna(inputs.weights[t][i])
    /\ ~isna(inputs.weights[t - 1][i])
    /\ inputs.weights[t][i] # inputs.weights[t - 1][i]

SignOf(x) == IF isna(x) THEN 0 ELSE Sign(x.n)

\* C15 as stated: with min <= max, in every cell where a trade occurs the
\* quantity implied by the returned weight is not above the max bound and not
\* below the min bound; a weight whose target exceeded max is the weight times
\* max/target, one whose target was below min is the weight times min/target,
\* and the sign of the weight is unchanged.
C15_TradedCellsWithinBounds ==
    (pc = "_constrain_weights" /\ result.raised = "" /\ BoundConfigured /\ BoundsOrdered) =>
        \A t \in Dates : \A i \in Instruments :
            LET weight == inputs.weights[t][i]
                target == ImpliedQuantity(weight, t, i)
                max_q == BoundAt(strategy.max_allowed_quantities, t, i)
                min_q == BoundAt(strategy.min_allowed_quantities, t, i)
                implied == ImpliedQuantity(result.value[t][i], t, i)
            IN  (TradeOccurs(t, i) /\ IsFinite(target)) =>
                    /\ ~isna(max_q) => Le(implied, max_q)
                    /\ ~isna(min_q) => Ge(implied, min_q)
                    /\ Gt(target, max_q) => result.value[t][i] = Div(Mul(weight, max_q), target)
                    /\ Lt(target, min_q) => result.value[t][i] = Div(Mul(weight, min_q), target)
                    /\ SignOf(result.value[t][i]) = SignOf(weight)

\* C15 amended: the same for the traded cells whose weight is not zero, except
\* that a max bound of zero makes the weight zero; a traded cell whose weight
\* is zero (a position being closed) stays zero, whatever the min bound.
C15_TradedNonZeroCellsWithinBounds ==
    (pc = "_constrain_weights" /\ result.raised = "" /\ BoundConfigured /\ BoundsOrdered) =>
        \A t \in Dates : \A i \in Instruments :
            LET weight == inputs.weights[t][i]
                target == ImpliedQuantity(weight, t, i)
                max_q == BoundAt(strategy.max_allowed_quantities, t, i)
                min_q == BoundAt(strategy.min_allowed_quantities, t, i)
                implied == ImpliedQuantity(result.value[t][i], t, i)
            IN  (TradeOccurs(t, i) /\ IsFinite(target)) =>
                    /\ weight = Zero => result.value[t][i] = Zero
                    /\ weight # Zero =>
                          /\ ~isna(max_q) => Le(implied, max_q)
                          /\ ~isna(min_q) => Ge(implied, min_q)
                          /\ Gt(target, max_q) =>
                                result.value[t][i] = Div(Mul(weight, max_q), target)
                          /\ Lt(target, min_q) =>
                                result.value[t][i] = Div(Mul(weight, min_q), target)
                          /\ (~Gt(target, max_q) /\ ~Lt(target, min_q)) =>
                                result.value[t][i] = weight
                          /\ \/ SignOf(result.value[t][i]) = SignOf(weight)
                             \/ (max_q = Zero /\ result.value[t][i] = Zero)

\* Both bounds configured: a long weight scaled down to the max bound, a short
\* weight scaled up to the min bound, and a position closed at weight zero.
C15_Witness ==
    /\ pc = "_constrain_weights"
    /\ result.raised = ""
    /\ BoundsOrdered
    /\ ~strategy.max_allowed_quantities.isNone
    /\ ~strategy.min_allowed_quantities.isNone
    /\ \E t \in Dates : \E i \in Instruments :
          /\ TradeOccurs(t, i)
          /\ Gt(inputs.weights[t][i], Zero)
          /\ Gt(ImpliedQuantity(inputs.weights[t][i], t, i), strategy.max_allowed_quantities.df[t][i])
          /\ ImpliedQuantity(result.value[t][i], t, i) = strategy.max_allowed_quantities.df[t][i]
    /\ \E t \in Dates : \E i \in Instruments :
          /\ TradeOccurs(t, i)
          /\ Lt(inputs.weights[t][i], Zero)
          /\ Lt(ImpliedQuantity(inputs.weights[t][i], t, i), strategy.min_allowed_quantities.df[t][i])
          /\ ImpliedQuantity(result.value[t][i], t, i) = strategy.min_allowed_quantities.df[t][i]
    /\ \E t \in Dates : \E i \in Instruments :
          /\ TradeOccurs(t, i)
          /\ inputs.weights[t][i] = Zero
          /\ result.value[t][i] = Zero

\* C16: a cell whose weight equals the previous date's weight of the same
\* instrument, and every cell of the first date, is returned unchanged, also
\* when its target quantity is above the max bound or below the min bound.
C16_HeldCellsUnchanged ==
    (pc = "_constrain_weights" /\ result.raised = "") =>
        \A t \in Dates : \A i \in Instruments :
            (t = 1 \/ inputs.weights[t][i] = inputs.weights[t - 1][i]) =>
                result.value[t][i] = inputs.weights[t][i]

\* A held weight above the max bound next to a traded weight that was
\* scaled down, and a first-date weight left as it was.
C16_Witness ==
    /\ pc = "_constrain_weights"
    /\ result.raised = ""
    /\ ~strategy.max_allowed_quantities.isNone
    /\ \E t \in Dates \ {1} : \E i \in Instruments :
          /\ inputs.weights[t][i] = inputs.weights[t - 1][i]
          /\ Gt(ImpliedQuantity(inputs.weights[t][i], t, i), strategy.max_allowed_quantities.df[t][i])
          /\ result.value[t][i] = inputs.weights[t][i]
    /\ \E t \in Dates : \E i \in Instruments : result.value[t][i] # inputs.weights[t][i]
    /\ \E i \in Instruments :
          inputs.weights[1][i] # Zero /\ result.value[1][i] = inputs.weights[1][i]

\* ------------------------------------------------------------------------
\* Quantity bounds in live trading
\* ------------------------------------------------------------------------
OrdersOf(i, a) ==
    {k \in DOMAIN result.value.orders :
        result.value.orders[k].ConId = i /\ result.value.orders[k].Account = a}

\* C17: the max/min quantity bounds leave the sign of every net quantity as it
\* is: positive stays positive, negative stays negative, zero stays zero and
\* yields no order; a magnitude above the max bound becomes the max bound.
C17_ClippingPreservesSign ==
    (pc = "trade" /\ result.raised = "" /\ ~result.value.nothing /\ BoundConfigured) =>
        \A i \in Instruments : \A a \in Accounts :
            LET net == result.value.net_quantities[i][a]
                quantity == result.value.quantities[i][a]
                max_q == BoundAt(strategy.max_allowed_quantities, LastDate, i)
            IN  /\ Gt(net, Zero) => Gt(quantity, Zero)
                /\ Lt(net, Zero) => Lt(quantity, Zero)
                /\ net = Zero => (quantity = Zero /\ OrdersOf(i, a) = {})
                /\ Gt(abs(net), max_q) => abs(quantity) = max_q

\* A run with only a min bound where a cell with net quantity zero is ordered.
C17_OrderFromZeroCell ==
    /\ pc = "trade"
    /\ result.raised = ""
    /\ strategy.max_allowed_quantities.isNone
    /\ ~strategy.min_allowed_quantities.isNone
    /\ \E i \in Instruments : \E a \in Accounts :
          /\ result.value.net_quantities[i][a] = Zero
          /\ \E k \in OrdersOf(i, a) :
                /\ result.value.orders[k].Action = "SELL"
                /\ result.value.orders[k].TotalQuantity =
                       strategy.min_allowed_quantities.df[LastDate][i]

\* ------------------------------------------------------------------------
\* The allocation of a backtest
\* ------------------------------------------------------------------------
\* C18: the weights handed to the weight constraint are the allocation hook's
\* weights times the allocation the caller passed, cell by cell; without
\* quantity bounds they are the Weight field of the result.
C18_WeightsScaledByAllocation ==
    (pc = "backtest" /\ result.raised = "") =>
        LET handed == MScale(inputs.weights, inputs.allocation)
        IN  /\ result.value.Weight = _constrain_weights(strategy, handed, prices).value
            /\ ~BoundConfigured => result.value.Weight = handed

\* What holds of every backtest with an allocation other than zero.
C18_WeightsScaledByNonZeroAllocation ==
    (pc = "backtest" /\ result.raised = "" /\ inputs.allocation # Zero) =>
        LET handed == MScale(inputs.weights, inputs.allocation)
        IN  /\ result.value.Weight = _constrain_weights(strategy, handed, prices).value
            /\ ~BoundConfigured => result.value.Weight = handed

\* A backtest with allocation 0 whose Weight field holds the unscaled weights.
C18_ZeroAllocationUnscaled ==
    /\ pc = "backtest"
    /\ result.raised = ""
    /\ inputs.allocation = Zero
    /\ ~BoundConfigured
    /\ result.value.Weight = inputs.weights
    /\ \E t \in Dates : \E i \in Instruments : inputs.weights[t][i] # Zero

\* ------------------------------------------------------------------------
\* Panels with other price fields than Close
\* ------------------------------------------------------------------------
\* A future quoted in cents.
CentsFuture == [SecType |-> "FUT", PrimaryExchange |-> "ECBOT", Currency |-> "USD",
                Symbol |-> "ZC", Multiplier |-> Num(50), PriceMagnifier |-> Num(100)]

\* DB_FIELDS of the strategy: the price fields of the history database.
PriceFieldSets ==
    {{}, {"Close"}, {"Open"}, {"Low"}, {"Open", "Close"}, {"Bid", "Ask"},
     {"High", "Low", "Ask"}}

\* A price that tells the fields apart.
FieldPrice(f, t) == Num(100 * (CHOOSE k \in DOMAIN PriceFields : PriceFields[k] = f) + 10 * t)

PanelOf(price_fields, securities, nlv) ==
    [fields |-> price_fields
                \cup {"Multiplier", "PriceMagnifier", "SecType", "PrimaryExchange",
                      "Currency", "Symbol"}
                \cup (IF nlv.isNone THEN {} ELSE {"Nlv"}),
     data |-> [f \in price_fields |-> [t \in Dates |-> [i \in Instruments |-> FieldPrice(f, t)]]],
     master |-> [f \in ReferenceFields |-> [i \in Instruments |->
                  IF f = "Nlv"
                  THEN (IF nlv.isNone THEN NaN ELSE nlv.df[securities[i].Currency])
                  ELSE securities[i][f]]]]

InitFields ==
    /\ \E commission \in {NoCommission, OneCommission}, max_q \in {None, Constant(Num(15))} :
          strategy = Strategy(commission, <<>>, 0, max_q, None)
    /\ \E price_fields \in PriceFieldSets, first \in {Stock, Future, CentsFuture},
          nlv \in {NoNlv, NlvDict} :
          prices = PanelOf(price_fields,
                           [i \in Instruments |-> IF i = 1 THEN first ELSE Stock], nlv)
    /\ external = [balances |-> [a \in Accounts |-> Balance("USD")],
                   exchange_rates |-> <<>>,
                   positions |-> <<>>]
    /\ \E signals \in RowSignals :
          inputs = [weights |-> WeightsOf(signals), allocation |-> One,
                    allocations |-> [a \in Accounts |-> One]]
    /\ pc = "start"
    /\ result = NoResult
    /\ inputs2 = NoInputs
    /\ result2 = NoResult

GetContractValues ==
    /\ pc = "start"
    /\ result' = _get_contract_values(prices)
    /\ pc' = "_get_contract_values"
    /\ UNCHANGED <<strategy, prices, external, inputs, inputs2, result2>>

NextFields == Backtest \/ GetCommissions \/ ConstrainWeights \/ Trade \/ GetContractValues

SpecFields == InitFields /\ [][NextFields]_vars

NoPriceField == \A k \in DOMAIN PriceFields : PriceFields[k] \notin prices.fields
MissingPriceField == "ValueError: Can't calculate contract values"
MissingNlv == "ValueError: must provide NLVs to constrain weights"

\* The contract value when a price field is present: the first candidate's
\* price x multiplier / magnifier, a missing multiplier or magnifier being 1.
ContractValuesFromFirstCandidate ==
    (pc = "_get_contract_values" /\ ~NoPriceField) =>
        /\ result.raised = ""
        /\ \A t \in Dates : \A i \in Instruments :
              LET first == CHOOSE k \in DOMAIN PriceFields :
                               /\ PriceFields[k] \in prices.fields
                               /\ \A j \in 1..(k - 1) : PriceFields[j] \notin prices.fields
                  multiplier == IF isna(prices.master["Multiplier"][i]) THEN One
                                ELSE prices.master["Multiplier"][i]
                  magnifier == IF isna(prices.master["PriceMagnifier"][i]) THEN One
                               ELSE prices.master["PriceMagnifier"][i]
              IN  result.value[t][i] =
                      Div(Mul(prices.data[PriceFields[first]][t][i], multiplier), magnifier)

\* C19 as stated: without any accepted price field a backtest, a commission
\* computation with a configured model, a weight constraint with a configured
\* bound and the live quantity conversion all fail with the missing-price-field
\* error; with a price field the contract value is computed from the first
\* candidate.
C19_MissingPriceFieldRaises ==
    /\ NoPriceField =>
          /\ pc \in {"backtest", "trade", "_get_contract_values"} =>
                result.raised = MissingPriceField
          /\ (pc = "_get_commissions" /\ ~IsFalsy(strategy.COMMISSION_CLASS)) =>
                result.raised = MissingPriceField
          /\ (pc = "_constrain_weights" /\ BoundConfigured) =>
                result.raised = MissingPriceField
    /\ ContractValuesFromFirstCandidate

\* C19 amended: without any accepted price field none of these runs produces
\* a result. The commission computation, the live quantity conversion and a
\* weight constraint over a Panel with Nlv fail with the missing-price-field
\* error; a weight constraint with a bound and no Nlv fails with the
\* missing-NLV error; a backtest fails as its weight constraint does when a
\* bound is configured, and otherwise with a lookup error for Close.
C19_MissingPriceFieldFails ==
    /\ NoPriceField =>
          /\ pc \in {"trade", "_get_contract_values"} => result.raised = MissingPriceField
          /\ (pc = "_get_commissions" /\ ~IsFalsy(strategy.COMMISSION_CLASS)) =>
                result.raised = MissingPriceField
          /\ (pc \in {"_constrain_weights", "backtest"} /\ BoundConfigured) =>
                result.raised = (IF "Nlv" \in prices.fields THEN MissingPriceField
                                 ELSE MissingNlv)
          /\ (pc = "backtest" /\ ~BoundConfigured) => result.raised = "KeyError: Close"
    /\ ContractValuesFromFirstCandidate

\* Contract values of a future quoted in cents, taken from Open because the
\* Panel has no Close.
C19_WitnessFirstCandidate ==
    /\ pc = "_get_contract_values"
    /\ "Close" \notin prices.fields
    /\ "Open" \in prices.fields
    /\ result.raised = ""
    /\ prices.master["Multiplier"][1] = Num(50)
    /\ prices.master["PriceMagnifier"][1] = Num(100)
    /\ result.value[1][1] = Frac(FieldPrice("Open", 1).n * 50, 100)
    /\ result.value[1][NumInstruments] = FieldPrice("Open", 1)

\* A live run over a Panel without any price field.
C19_Witness ==
    /\ pc = "trade"
    /\ NoPriceField
    /\ result.raised = MissingPriceField

====
